---- MODULE Spec2Model ----
(***************************************************************************)
(* State-machine model of spl_meter.py: the measurement/display loop of    *)
(* the sound-level meter (proximity toggle, capture, band RMS, weighting,  *)
(* linear / log2 scaling, bar drawing, presentation, interrupt exit).      *)
(*                                                                         *)
(* Units of the fixed-point arithmetic (the source computes in floats):    *)
(*   time                  tenths of a second  (delay 0.5 s   = 5)         *)
(*   multipliers, weights  thousandths         (0.707         = 707)       *)
(*   power spectrum        whole units                                     *)
(*   raw amplitudes        tenths                                          *)
(*   weighted amplitudes   hundredths (the source rounds to 2 places)      *)
(*   bar values, pixels    hundredths (the source rounds to 2 places)      *)
(*   logarithms            1/1024                                          *)
(***************************************************************************)
EXTENDS Integers, Sequences, FiniteSets, TLC

(* ---------------------------------------------------------------------- *)
(* Bounds of the model                                                     *)
(* ---------------------------------------------------------------------- *)

\* time.time() of the first loop iteration, as an offset (last_page is 0)
StartTime == 6

\* the clock value after which no step that takes time is modelled
MaxTime == 24

\* how far the blocking capture may deviate from its nominal duration
Jitter == 1

\* the most time that passes between the two time.time() calls of the toggle
Drift == 1

(* ---------------------------------------------------------------------- *)
(* Program constants                                                       *)
(* ---------------------------------------------------------------------- *)

sample_rate == 16000
duration == 5
lower_multiplier == 707
upper_multiplier == 1412
max_spl == 450
l_margin == 29
t_margin == 10
gap == 1
delay == 5
threshold == 1500
disp_width == 160
disp_height == 80

bands == <<8000, 4000, 2000, 1000, 500, 250, 125, 63>>
no_of_measurements == Len(bands)
a_weightings == <<1200, 1600, 1600, 1000, 500, 100, 20, 3>>

(* ---------------------------------------------------------------------- *)
(* Arithmetic of the source, in fixed point                                *)
(* ---------------------------------------------------------------------- *)

\* Python round(): n/d to the nearest integer, ties to the even one (n >= 0)
round(n, d) ==
    LET q == n \div d
        r == n % d
    IN  IF 2 * r < d THEN q
        ELSE IF 2 * r > d THEN q + 1
        ELSE IF q % 2 = 0 THEN q ELSE q + 1

Min(a, b) == IF a < b THEN a ELSE b

\* Python max(a, b)
max(a, b) == IF b > a THEN b ELSE a

RECURSIVE SqrtSearch(_, _, _)
SqrtSearch(x, lo, hi) ==
    IF lo >= hi THEN lo
    ELSE LET mid == (lo + hi + 1) \div 2
         IN  IF mid * mid <= x THEN SqrtSearch(x, mid, hi)
                               ELSE SqrtSearch(x, lo, mid - 1)

\* numpy.sqrt, rounded down to an integer
sqrt(x) == SqrtSearch(x, 0, 46340)

RECURSIVE ILog2(_)
ILog2(v) == IF v < 2 THEN 0 ELSE 1 + ILog2(v \div 2)

RECURSIVE Pow2(_)
Pow2(k) == IF k = 0 THEN 1 ELSE 2 * Pow2(k - 1)

\* the fractional bits of log2 of the mantissa m / 2^14, m in [2^14, 2^15)
RECURSIVE FracBits(_, _, _)
FracBits(m, k, acc) ==
    IF k = 0 THEN acc
    ELSE LET sq == (m * m) \div 16384
         IN  IF sq >= 32768 THEN FracBits(sq \div 2, k - 1, 2 * acc + 1)
                            ELSE FracBits(sq, k - 1, 2 * acc)

\* log2 of the integer v >= 1, in 1/1024
Log2Fix(v) ==
    LET e == ILog2(v)
        m == IF e <= 14 THEN v * Pow2(14 - e) ELSE v \div Pow2(e - 14)
    IN  1024 * e + FracBits(m, 10, 0)

\* math.log(s, 2) of an amplitude s given in hundredths, in 1/1024;
\* math.log raises ValueError("math domain error") for s <= 0
MathDomainError(s) == s <= 0
log2(s) == Log2Fix(s) - Log2Fix(100)

log2_max_spl == log2(max_spl * 100)

(* ---------------------------------------------------------------------- *)
(* Inputs                                                                  *)
(* ---------------------------------------------------------------------- *)

\* readings of ltr559.get_proximity(): far, at the threshold, above it
Proximities == {0, 1500, 1501}

\* A power spectrum |rfft(recording, n = sample_rate)|^2, bins 0 .. sample_rate/2:
\* a flat level `floor` in every bin, plus `peakPower` more in the bin `peak`.
NoPeak == 0 - 1
Silence == [floor |-> 0, peak |-> NoPeak, peakPower |-> 0]
Quiet == [floor |-> 1, peak |-> NoPeak, peakPower |-> 0]
Loud == [floor |-> 100, peak |-> 1000, peakPower |-> 70500000]
Spectra == {Silence, Quiet, Loud}

\* the value of a name that has not been assigned yet
Unset == <<>>

\* float('nan'), as numpy.mean gives for an empty slice
NaN == 0 - 1

(* ---------------------------------------------------------------------- *)
(* Expressions of the loop body                                            *)
(* ---------------------------------------------------------------------- *)

\* line 163: the condition of the toggle
Accepted_Inclusive(prox, t, last) == prox > threshold /\ t - last >= delay
Accepted_AtThreshold(prox, t, last) == prox >= threshold /\ t - last > delay
Accepted(prox, t, last) == prox > threshold /\ t - last > delay

\* lines 164-167: the toggle itself
Toggle_Upper(dt) == IF dt = "n" THEN "L" ELSE IF dt = "l" THEN "n" ELSE dt
Toggle(dt) == IF dt = "n" THEN "l" ELSE IF dt = "l" THEN "n" ELSE dt

\* line 180: (round(b*lower_multiplier), round(b*upper_multiplier))
FreqRange_Swapped(b) ==
    <<round(b * upper_multiplier, 1000), round(b * lower_multiplier, 1000)>>
FreqRange(b) ==
    <<round(b * lower_multiplier, 1000), round(b * upper_multiplier, 1000)>>

\* number of bins of the real FFT of sample_rate points (line 74)
NBins == sample_rate \div 2 + 1

\* magnitude[start:end]: Python clips both ends of a slice to the length
SliceLen(r) ==
    LET lo == Min(r[1], NBins)
        hi == Min(r[2], NBins)
    IN  IF hi > lo THEN hi - lo ELSE 0

SliceSum(mag, r) ==
    mag.floor * SliceLen(r)
      + (IF mag.peak >= r[1] /\ mag.peak < r[2] /\ mag.peak < NBins /\ mag.peak >= 0
         THEN mag.peakPower ELSE 0)

\* line 78: numpy.sqrt(numpy.mean(magnitude[start:end])), in tenths
BandRms(mag, r) ==
    LET n == SliceLen(r)
        total == SliceSum(mag, r)
    IN  IF n = 0 THEN NaN
        ELSE sqrt((total \div n) * 100 + ((total % n) * 100) \div n)

\* lines 75-79: one amplitude per range, in the order of the ranges
Amplitudes(mag, rs) == [i \in 1..Len(rs) |-> BandRms(mag, rs[i])]

\* list.insert(idx, x), idx counted from 0
ListInsert(list, idx, x) ==
    LET k == Min(idx, Len(list))
    IN  SubSeq(list, 1, k) \o <<x>> \o SubSeq(list, k + 1, Len(list))

\* line 185: round(2*(amps[b]*a_weightings[b]), 2), in hundredths
Weigh(amp, w) == IF amp = NaN THEN NaN ELSE round(2 * (amp * w), 100)

\* lines 182-185: the weighting loop, b = from .. no_of_measurements-1
RECURSIVE WeightLoop_Front(_, _, _)
WeightLoop_Front(as, from, acc) ==
    IF from >= no_of_measurements THEN acc
    ELSE WeightLoop_Front(as, from + 1,
             ListInsert(acc, 0, Weigh(as[from + 1], a_weightings[from + 1])))
RECURSIVE WeightLoop(_, _, _)
WeightLoop(as, from, acc) ==
    IF from >= no_of_measurements THEN acc
    ELSE WeightLoop(as, from + 1,
             ListInsert(acc, from, Weigh(as[from + 1], a_weightings[from + 1])))

\* line 188
bar_height == round(disp_height - no_of_measurements + 1, no_of_measurements + 1)

\* line 197: round((disp.width-l_margin) * (s/max_spl), 2), in hundredths
LinearBar(s) ==
    IF s = NaN THEN NaN ELSE round((disp_width - l_margin) * s, max_spl)

\* line 193: round((disp.width-l_margin) * (max(0, log(s,2))*(100/log2_max_spl)/100), 2)
LogBar(s) ==
    IF s = NaN THEN 0
    ELSE round((disp_width - l_margin) * max(0, log2(s)) * 100, log2_max_spl)

\* lines 216-224: the rectangle and label of row i (i counted from 0);
\* x in hundredths of a pixel, y in pixels
Rect(i, bv) ==
    [ top_x |-> l_margin * 100,
      top_y |-> (i * bar_height) + (gap + 1) + t_margin,
      bot_x |-> l_margin * 100 + bv[i + 1],
      bot_y |-> ((i * bar_height) + (bar_height + t_margin)) - gap,
      label |-> bands[i + 1] ]

\* lines 209-224: the drawing loop
Bars(bv) == [k \in 1..no_of_measurements |-> Rect(k - 1, bv)]

(* ---------------------------------------------------------------------- *)
(* State                                                                   *)
(* ---------------------------------------------------------------------- *)

VARIABLES
    pc,             \* the statement the process is at, or how it ended
    now,            \* what time.time() returns
    proximity,      \* line 160
    display_type,   \* line 154
    last_page,      \* line 152
    aww_go_on,      \* line 156
    ranges,         \* the argument built on line 180
    magnitude,      \* line 74
    amps,           \* line 180
    weighted_amps,  \* line 182
    bar_values,     \* lines 193, 197
    x_label,        \* lines 194, 198
    canvas,         \* what has been drawn into img since it was last cleared
    displayed,      \* the frame last given to disp.display
    exit_status,    \* the exit status of the process once it has ended
    error,          \* the exception that ended the process, if one did
    log,            \* history: the steps of the current iteration, in order
    iter,           \* history: iterations started
    frames,         \* history: frames presented
    taps,           \* history: the last accepted above-threshold reading and
                    \*          the latest above-threshold reading after it
    interrupted,    \* history: a KeyboardInterrupt was delivered
    capture_failed  \* history: sounddevice.rec raised

vars == <<pc, now, proximity, display_type, last_page, aww_go_on, ranges,
          magnitude, amps, weighted_amps, bar_values, x_label, canvas,
          displayed, exit_status, error, log, iter, frames, taps,
          interrupted, capture_failed>>

prog == <<proximity, display_type, last_page, aww_go_on, ranges, magnitude,
          amps, weighted_amps, bar_values, x_label, canvas, displayed>>

LoopPcs == {"poll", "check", "record", "estimate", "weight", "map",
            "clear", "draw", "present"}

Running == "running"

\* line 123: the image, all black, with nothing drawn on it
Blank == [texts |-> <<>>, rects |-> <<>>]

\* lines 151-156, and the clock when the loop is entered
Init ==
    /\ pc = "poll"
    /\ now = StartTime
    /\ proximity = 0
    /\ display_type = "n"
    /\ last_page = 0
    /\ aww_go_on = TRUE
    /\ ranges = Unset
    /\ magnitude = Unset
    /\ amps = Unset
    /\ weighted_amps = Unset
    /\ bar_values = Unset
    /\ x_label = ""
    /\ canvas = Blank
    /\ displayed = Blank
    /\ exit_status = Running
    /\ error = "none"
    /\ log = <<>>
    /\ iter = 0
    /\ frames = 0
    /\ taps = <<>>
    /\ interrupted = FALSE
    /\ capture_failed = FALSE

(* ---------------------------------------------------------------------- *)
(* Steps of the loop                                                       *)
(* ---------------------------------------------------------------------- *)

\* line 160: proximity = ltr559.get_proximity()
Poll ==
    /\ pc = "poll"
    /\ \E p \in Proximities : proximity' = p
    /\ pc' = "check"
    /\ log' = <<"poll">>
    /\ iter' = iter + 1
    /\ UNCHANGED <<now, display_type, last_page, aww_go_on, ranges, magnitude,
                   amps, weighted_amps, bar_values, x_label, canvas, displayed,
                   exit_status, error, frames, taps, interrupted, capture_failed>>

\* the last accepted reading kept in the history taps, if there is one
LastAccepted ==
    IF Len(taps) = 2 /\ taps[2].acc THEN <<taps[2]>>
    ELSE IF Len(taps) >= 1 /\ taps[1].acc THEN <<taps[1]>>
    ELSE <<>>

\* lines 163-168: the debounced toggle; last_page is a second time.time()
Check ==
    /\ pc = "check"
    /\ \E e \in 0..Drift :
         LET acc == Accepted(proximity, now, last_page)
             t2 == IF acc THEN now + e ELSE now
             dt == IF acc THEN Toggle(display_type) ELSE display_type
             lp == IF acc THEN t2 ELSE last_page
             tap == [t |-> now, acc |-> acc, before |-> display_type,
                     after |-> dt, stamp |-> lp]
         IN  /\ t2 <= MaxTime
             /\ acc \/ e = 0
             /\ now' = t2
             /\ display_type' = dt
             /\ last_page' = lp
             /\ taps' = IF proximity > threshold
                        THEN LastAccepted \o <<tap>> ELSE taps
    /\ pc' = "record"
    /\ log' = Append(log, "check")
    /\ UNCHANGED <<proximity, aww_go_on, ranges, magnitude, amps, weighted_amps,
                   bar_values, x_label, canvas, displayed, exit_status, error,
                   iter, frames, interrupted, capture_failed>>

\* line 180, the argument of the call
Ranges == [i \in 1..Len(bands) |-> FreqRange(bands[i])]

\* the time a blocking capture of `duration` takes
CaptureTimes == (duration - Jitter)..(duration + Jitter)

\* lines 180, 73-74, 82-90: the capture succeeds; its spectrum is the input
RecordOk ==
    /\ pc = "record"
    /\ ranges' = Ranges
    /\ \E d \in CaptureTimes :
         /\ now + d <= MaxTime
         /\ now' = now + d
    /\ \E m \in Spectra : magnitude' = m
    /\ pc' = "estimate"
    /\ log' = Append(log, "record")
    /\ UNCHANGED <<proximity, display_type, last_page, aww_go_on, amps,
                   weighted_amps, bar_values, x_label, canvas, displayed,
                   exit_status, error, iter, frames, taps, interrupted,
                   capture_failed>>

\* lines 83-90 raise (the device cannot be opened or read): nothing in the
\* loop catches it, the interpreter prints the traceback and exits with 1
RecordFail_ZeroFill ==
    /\ pc = "record"
    /\ ranges' = Ranges
    /\ magnitude' = Silence
    /\ capture_failed' = TRUE
    /\ pc' = "estimate"
    /\ log' = Append(log, "record")
    /\ UNCHANGED <<now, proximity, display_type, last_page, aww_go_on, amps,
                   weighted_amps, bar_values, x_label, canvas, displayed,
                   exit_status, error, iter, frames, taps, interrupted>>
RecordFail ==
    /\ pc = "record"
    /\ ranges' = Ranges
    /\ capture_failed' = TRUE
    /\ pc' = "crashed"
    /\ error' = "PortAudioError"
    /\ exit_status' = 1
    /\ log' = Append(log, "record")
    /\ UNCHANGED <<now, proximity, display_type, last_page, aww_go_on,
                   magnitude, amps, weighted_amps, bar_values, x_label, canvas,
                   displayed, iter, frames, taps, interrupted>>

\* lines 75-79
Estimate ==
    /\ pc = "estimate"
    /\ amps' = Amplitudes(magnitude, ranges)
    /\ pc' = "weight"
    /\ log' = Append(log, "estimate")
    /\ UNCHANGED <<now, proximity, display_type, last_page, aww_go_on, ranges,
                   magnitude, weighted_amps, bar_values, x_label, canvas,
                   displayed, exit_status, error, iter, frames, taps,
                   interrupted, capture_failed>>

\* lines 182-185
Weight ==
    /\ pc = "weight"
    /\ weighted_amps' = WeightLoop(amps, 0, <<>>)
    /\ pc' = "map"
    /\ log' = Append(log, "weight")
    /\ UNCHANGED <<now, proximity, display_type, last_page, aww_go_on, ranges,
                   magnitude, amps, bar_values, x_label, canvas, displayed,
                   exit_status, error, iter, frames, taps, interrupted,
                   capture_failed>>

\* line 193, the list comprehension: math.log raises on the first s <= 0
LogRaises(ws) == \E i \in 1..Len(ws) : ws[i] # NaN /\ MathDomainError(ws[i])

\* lines 188-203: the dispatch on display_type
Map ==
    /\ pc = "map"
    /\ log' = Append(log, "map")
    /\ CASE display_type = "l" /\ LogRaises(weighted_amps) ->
              /\ pc' = "crashed"
              /\ error' = "ValueError"
              /\ exit_status' = 1
              /\ UNCHANGED <<bar_values, x_label, aww_go_on, canvas>>
         [] display_type = "l" /\ ~LogRaises(weighted_amps) ->
              /\ bar_values' = [i \in 1..Len(weighted_amps) |->
                                    LogBar(weighted_amps[i])]
              /\ x_label' = "Log(2) Ampilitude RMS(A)"
              /\ pc' = "clear"
              /\ UNCHANGED <<error, exit_status, aww_go_on, canvas>>
         [] display_type = "n" ->
              /\ bar_values' = [i \in 1..Len(weighted_amps) |->
                                    LinearBar(weighted_amps[i])]
              /\ x_label' = "Ampilitude RMS(A)"
              /\ pc' = "clear"
              /\ UNCHANGED <<error, exit_status, aww_go_on, canvas>>
         [] OTHER ->
              /\ canvas' = [canvas EXCEPT
                              !.texts = @ \o <<"Oops!", "Option n or l">>]
              /\ aww_go_on' = FALSE
              /\ pc' = "present"
              /\ UNCHANGED <<error, exit_status, bar_values, x_label>>
    /\ UNCHANGED <<now, proximity, display_type, last_page, ranges, magnitude,
                   amps, weighted_amps, displayed, iter, frames, taps,
                   interrupted, capture_failed>>

\* lines 205-208: clear to black, then the two axis labels
Clear ==
    /\ pc = "clear"
    /\ aww_go_on
    /\ canvas' = [texts |-> <<"Freq", x_label>>, rects |-> <<>>]
    /\ pc' = "draw"
    /\ log' = Append(log, "clear")
    /\ UNCHANGED <<now, proximity, display_type, last_page, aww_go_on, ranges,
                   magnitude, amps, weighted_amps, bar_values, x_label,
                   displayed, exit_status, error, iter, frames, taps,
                   interrupted, capture_failed>>

\* lines 209-224: one rectangle and one label per band
Draw ==
    /\ pc = "draw"
    /\ canvas' = [canvas EXCEPT !.rects = @ \o Bars(bar_values)]
    /\ pc' = "present"
    /\ log' = Append(log, "draw")
    /\ UNCHANGED <<now, proximity, display_type, last_page, aww_go_on, ranges,
                   magnitude, amps, weighted_amps, bar_values, x_label,
                   displayed, exit_status, error, iter, frames, taps,
                   interrupted, capture_failed>>

\* line 226, then the loop condition of line 159
Present_SkipPoll ==
    /\ pc = "present"
    /\ displayed' = canvas
    /\ frames' = frames + 1
    /\ log' = Append(log, "present")
    /\ pc' = "check"
    /\ UNCHANGED <<now, proximity, display_type, last_page, aww_go_on, ranges,
                   magnitude, amps, weighted_amps, bar_values, x_label, canvas,
                   error, exit_status, iter, taps, interrupted, capture_failed>>
Present ==
    /\ pc = "present"
    /\ displayed' = canvas
    /\ frames' = frames + 1
    /\ log' = Append(log, "present")
    /\ IF aww_go_on
       THEN pc' = "poll" /\ UNCHANGED exit_status
       ELSE pc' = "done" /\ exit_status' = 0
    /\ UNCHANGED <<now, proximity, display_type, last_page, aww_go_on, ranges,
                   magnitude, amps, weighted_amps, bar_values, x_label, canvas,
                   error, iter, taps, interrupted, capture_failed>>

\* lines 228-229: KeyboardInterrupt raised at any statement of the loop is
\* caught by the except clause around it, which calls sys.exit(0)
Interrupt_Resume ==
    /\ pc \in LoopPcs
    /\ interrupted' = TRUE
    /\ pc' = "poll"
    /\ UNCHANGED <<now, prog, exit_status, error, log, iter, frames, taps,
                   capture_failed>>
Interrupt ==
    /\ pc \in LoopPcs
    /\ interrupted' = TRUE
    /\ pc' = "exited"
    /\ exit_status' = 0
    /\ UNCHANGED <<now, prog, error, log, iter, frames, taps, capture_failed>>

Next ==
    \/ Poll
    \/ Check
    \/ RecordOk
    \/ RecordFail
    \/ Estimate
    \/ Weight
    \/ Map
    \/ Clear
    \/ Draw
    \/ Present
    \/ Interrupt

Spec == Init /\ [][Next]_vars

(* ---------------------------------------------------------------------- *)
(* Properties                                                              *)
(* ---------------------------------------------------------------------- *)

\* the steps of one iteration, in the order of the loop body
Canon == <<"poll", "check", "record", "estimate", "weight", "map", "clear",
           "draw", "present">>

IsPrefix(s, t) == Len(s) <= Len(t) /\ \A i \in 1..Len(s) : s[i] = t[i]

Other(dt) == IF dt = "n" THEN "l" ELSE "n"

\* C1: of two above-threshold readings, the first accepted, the second is
\* not accepted when it is read within `delay` of the first one's recorded
\* time (one transition in all), and is accepted when it is read more than
\* `delay` after it, which brings the mode back to what it was before the
\* first (two transitions).
C1_Debounce ==
    /\ Len(taps) >= 1 => display_type = taps[Len(taps)].after
    /\ Len(taps) = 2 /\ taps[1].acc =>
         /\ taps[1].after # taps[1].before
         /\ taps[2].t - taps[1].stamp <= delay =>
                ~taps[2].acc /\ taps[2].after = taps[1].after
         /\ taps[2].t - taps[1].stamp > delay =>
                taps[2].acc /\ taps[2].after = taps[1].before

\* C1 witness: two accepted readings more than `delay` apart, mode restored
C1_Witness ==
    /\ Len(taps) = 2
    /\ taps[1].acc
    /\ taps[2].acc
    /\ taps[2].t - taps[1].stamp > delay
    /\ display_type = taps[1].before

\* C1, the other case reached: a second reading inside the window, rejected
C1_WitnessWithin ==
    /\ Len(taps) = 2
    /\ taps[1].acc
    /\ ~taps[2].acc
    /\ taps[2].t - taps[1].stamp < delay
    /\ display_type = taps[1].after

\* C2 as stated: a reading is accepted exactly when it exceeds the threshold
\* and at least `delay` has elapsed since last_page (elapsed = delay
\* included); then the mode toggles and last_page becomes the current time;
\* otherwise mode and last_page stay as they are.
C2_AtLeastDelay ==
    [][pc = "check" /\ pc' = "record" =>
         IF proximity > threshold /\ now - last_page >= delay
         THEN display_type' = Other(display_type) /\ last_page' = now'
         ELSE display_type' = display_type /\ last_page' = last_page]_vars

\* C2 amended: a reading is accepted exactly when it exceeds the threshold
\* and MORE than `delay` has elapsed since last_page (at elapsed = delay it
\* is rejected); then the mode toggles and last_page becomes the current
\* time; otherwise mode and last_page stay as they are.
C2_MoreThanDelay ==
    [][pc = "check" /\ pc' = "record" =>
         IF proximity > threshold /\ now - last_page > delay
         THEN display_type' = Other(display_type) /\ last_page' = now'
         ELSE display_type' = display_type /\ last_page' = last_page]_vars

\* C2 witness: an above-threshold reading exactly `delay` after the last
\* accepted one has been through the toggle, and was rejected
C2_Witness ==
    /\ pc = "record"
    /\ Len(taps) = 2
    /\ taps[1].acc
    /\ taps[2].t - taps[1].stamp = delay
    /\ ~taps[2].acc
    /\ last_page = taps[1].stamp

\* C3 as stated: in log2 mode every weighted amplitude <= 1 (<= 0 included)
\* gives a bar value of exactly 0, and no math domain error ever ends the
\* process.
C3_LogClamp ==
    /\ error # "ValueError"
    /\ pc \in {"clear", "draw", "present"} /\ display_type = "l" =>
         \A i \in 1..Len(weighted_amps) :
             weighted_amps[i] <= 100 => bar_values[i] = 0

\* C4: the mode starts as 'n', is always 'n' or 'l', changes only in the
\* toggle on an accepted reading, and the "Oops" branch is never taken.
C4_ModeInvariant ==
    /\ display_type = "n"
    /\ [](/\ display_type \in {"n", "l"}
          /\ aww_go_on
          /\ pc # "done"
          /\ \A i \in 1..Len(canvas.texts) : canvas.texts[i] # "Oops!"
          /\ \A i \in 1..Len(displayed.texts) : displayed.texts[i] # "Oops!")
    /\ [][display_type' # display_type =>
            /\ pc = "check"
            /\ proximity > threshold
            /\ now - last_page > delay]_vars

\* C4 witness: a frame is about to be presented in the toggled mode
C4_Witness ==
    /\ pc = "present"
    /\ display_type = "l"
    /\ Len(canvas.rects) = no_of_measurements

\* C5: once a KeyboardInterrupt has been delivered inside the loop the
\* process has exited with status 0 and without an error, and nothing of
\* the loop runs afterwards.
C5_InterruptExit ==
    /\ [](interrupted =>
            pc = "exited" /\ exit_status = 0 /\ error = "none")
    /\ [][interrupted => UNCHANGED <<pc, iter, frames, log, prog>>]_vars
    /\ [](pc \in LoopPcs => ENABLED Interrupt)

\* C5 witness: interrupted in the middle of a later iteration
C5_Witness ==
    /\ interrupted
    /\ pc = "exited"
    /\ frames >= 1
    /\ Len(log) \in 3..6

\* C6: once a capture has failed the process has ended with the exception
\* (status 1), the failed capture is the last step taken, and neither
\* spectrum, amplitudes, canvas, presented frame nor the iteration and frame
\* counts change from what they were before the failure.
C6_CaptureFatal ==
    /\ [](capture_failed =>
            /\ pc = "crashed"
            /\ exit_status = 1
            /\ error = "PortAudioError"
            /\ log[Len(log)] = "record")
    /\ [][capture_failed' =>
            UNCHANGED <<magnitude, amps, weighted_amps, bar_values, canvas,
                        displayed, frames, iter>>]_vars

\* C6 witness: a capture failed after an earlier iteration had presented
C6_Witness ==
    /\ capture_failed
    /\ pc = "crashed"
    /\ frames >= 1
    /\ iter = frames + 1

\* C7: all vectors have 8 entries once assigned, and when the bars have been
\* drawn, row i carries the label bands[i] and a width computed from the
\* energy of the range of bands[i] times a_weightings[i].
C7_Aligned ==
    /\ Len(ranges) \in {0, no_of_measurements}
    /\ Len(amps) \in {0, no_of_measurements}
    /\ Len(weighted_amps) \in {0, no_of_measurements}
    /\ Len(bar_values) \in {0, no_of_measurements}
    /\ Len(bands) = 8 /\ Len(a_weightings) = 8
    /\ pc = "present" =>
         /\ Len(canvas.rects) = no_of_measurements
         /\ Len(bar_values) = no_of_measurements
         /\ \A i \in 1..no_of_measurements :
              LET b == bands[i]
                  r == <<round(b * 707, 1000), round(b * 1412, 1000)>>
                  a == BandRms(magnitude, r)
                  w == round(2 * a * a_weightings[i], 100)
                  px == IF display_type = "l" THEN LogBar(w) ELSE LinearBar(w)
                  box == canvas.rects[i]
              IN  /\ ranges[i] = r
                  /\ amps[i] = a
                  /\ weighted_amps[i] = w
                  /\ bar_values[i] = px
                  /\ box.label = b
                  /\ box.bot_x - box.top_x = px
                  /\ box.top_y = t_margin + (i - 1) * bar_height + gap + 1

\* C7 witness: the bars of a spectrum whose bands all differ have been drawn
C7_Witness ==
    /\ pc = "present"
    /\ amps = Amplitudes(Loud, Ranges)
    /\ Len(canvas.rects) = no_of_measurements
    /\ canvas.rects[4].label = 1000
    /\ canvas.rects[4].bot_x > canvas.rects[1].bot_x

\* C8: every range has start < end, starts and ends do not decrease with the
\* centre frequency, and every range keeps at least one bin of 0..8000.
C8_Ranges ==
    Len(ranges) > 0 =>
      /\ Len(ranges) = 8
      /\ \A i \in 1..8 :
           /\ ranges[i][1] < ranges[i][2]
           /\ ranges[i][1] >= 0
           /\ ranges[i][1] <= sample_rate \div 2
      /\ \A i, j \in 1..8 :
           bands[i] <= bands[j] =>
               ranges[i][1] <= ranges[j][1] /\ ranges[i][2] <= ranges[j][2]

\* C8 witness: the ranges have been built and handed to the estimator
C8_Witness ==
    /\ pc = "estimate"
    /\ Len(ranges) = 8
    /\ ranges[8] = <<45, 89>>
    /\ ranges[1] = <<5656, 11296>>

\* C9 as stated: no rectangle drawn reaches past the right edge of the
\* canvas.
C9_Clipped ==
    \A i \in 1..Len(canvas.rects) :
        canvas.rects[i].bot_x <= disp_width * 100

\* C10: the steps of an iteration happen once each in the order of the loop
\* body, the process is at the step after the last one taken, and when an
\* iteration starts every earlier one has presented exactly one frame.
C10_Sequential ==
    /\ IsPrefix(log, Canon)
    /\ pc \in LoopPcs \ {"poll"} =>
           Len(log) < Len(Canon) /\ Canon[Len(log) + 1] = pc
    /\ pc = "poll" => log \in {<<>>, Canon} /\ frames = iter
    /\ pc \in LoopPcs \ {"poll"} => frames = iter - 1
    /\ frames \in {iter - 1, iter} \ {0 - 1}
    /\ log = Canon => pc \in {"poll", "exited"}

\* C10 witness: two whole iterations done, the third about to poll
C10_Witness ==
    /\ pc = "poll"
    /\ iter = 2
    /\ frames = 2
    /\ log = Canon

====
